---- MODULE Spec2Model ----
(***************************************************************************)
(* PresetManager of voicevox_engine/preset/Preset.py: a cache of Preset    *)
(* objects backed by one YAML file, refreshed when the file's st_mtime     *)
(* differs from the remembered one, rewritten whole by every mutation.     *)
(*                                                                         *)
(* Preset objects are Python objects: the cache is a list of references    *)
(* into a heap, and a caller may hold a reference to an object that is in  *)
(* the cache (the argument of add_preset / update_preset is stored as is,  *)
(* load_presets returns the cached objects).  The cache itself is a list  *)
(* object: load_presets returns that list, the mutations change it in      *)
(* place, and a reload binds self.presets to a new list.  listed says that *)
(* the caller holds the list load_presets returned and that it is still    *)
(* the list self.presets.                                                  *)
(*                                                                         *)
(* The store has one caller, and every step of it is one whole call of a   *)
(* public method.  Another program writing the file comes in between the   *)
(* calls (ExternalWrite) or, in the steps of NextRaces, inside one call:   *)
(* between its stat() and its open(), between two reads of its             *)
(* yaml.safe_load, between its open(mode="w") and its yaml.safe_dump.      *)
(***************************************************************************)
EXTENDS Integers, Sequences, FiniteSets, TLC

\* ---------------------------------------------------------------- bounds
MaxLen == 2
MaxId == 1
MaxTime == 2
MaxHeld == 1

\* The lists and ids a specification goes up to.
Base == [len |-> MaxLen, id |-> MaxId]

Wide == [len |-> MaxLen + 2, id |-> MaxId + 2]

Refs == 1..(Wide.len + MaxHeld + 1)
Times == 0..MaxTime

\* ------------------------------------------------------------ Preset data
\* tempoDynamicsScale and the other float fields are written in tenths.
DefaultTempo == 10

Payloads == { [name |-> "A", tempoDynamicsScale |-> 10],
              [name |-> "B", tempoDynamicsScale |-> 15] }

Preset(i, n, t) == [id |-> i, name |-> n, tempoDynamicsScale |-> t]

CallerIds == (-1)..MaxId
CallerPresets == { Preset(i, p.name, p.tempoDynamicsScale) : i \in CallerIds, p \in Payloads }
DeleteIds == (-1)..MaxId

\* ------------------------------------------------------------ file content
\* A document is what yaml.safe_load gives for the file, or the reason it
\* gives nothing.  Records of a "seq" document are mappings: a key may be
\* missing and unknown keys may be present.
SeqDoc(recs) == [kind |-> "seq", recs |-> recs]
NullDoc == [kind |-> "null", recs |-> <<>>]
BadYamlDoc == [kind |-> "badyaml", recs |-> <<>>]
MissingDoc == [kind |-> "missing", recs |-> <<>>]

\* The file the store is opened over: an empty list, or a list written by
\* an engine that has no tempoDynamicsScale.
InitialDocs == { SeqDoc(<<>>),
                 SeqDoc(<< [id |-> 1, name |-> "A"], Preset(0, "B", 15) >>) }

\* What another writer may leave: no file, an empty file, text that is not
\* YAML, a list with defaulted and unknown keys, a list with a duplicated id,
\* a record without its name, a negative id, a tempoDynamicsScale of 3.0.
ExternalDocs == { MissingDoc, NullDoc, BadYamlDoc,
                  SeqDoc(<<>>),
                  SeqDoc(<< [id |-> 1, name |-> "A"],
                            [id |-> 0, name |-> "B", tempoDynamicsScale |-> 15, note |-> "x"] >>),
                  SeqDoc(<< Preset(1, "A", 10), Preset(1, "B", 15) >>),
                  SeqDoc(<< [id |-> 0, tempoDynamicsScale |-> 10] >>),
                  SeqDoc(<< Preset(-1, "A", 10) >>),
                  SeqDoc(<< Preset(0, "A", 30) >>) }


\* What another writer may leave when it comes between the stat() and the
\* open() of a call: no file, text that is not YAML, an empty list, a list of
\* two records.
RaceDocs == { d \in ExternalDocs :
                \/ d.kind \in { "missing", "badyaml" }
                \/ d.kind = "seq" /\ Len(d.recs) = 0
                \/ d.kind = "seq" /\ Len(d.recs) = 2 /\ d.recs[1].id # d.recs[2].id }

\* Where a yaml.safe_dump that fails stops writing into the file that
\* open(mode="w") has already truncated: before the first byte, inside text
\* that is not YAML as far as it goes, after k whole records (all of them
\* when the failure comes with the last byte), or inside the k-th record.
\* The list that is dumped is one longer than the longest cache: add_preset
\* appends before it writes.
NoCut == [kind |-> "empty", k |-> 0]

Cuts == { NoCut, [kind |-> "text", k |-> 0] }
        \cup { [kind |-> "records", k |-> k] : k \in 0..(Wide.len + 1) }
        \cup { [kind |-> "inrecord", k |-> k] : k \in 1..(Wide.len + 1) }

Faults == { "none", "FileNotFoundError", "PermissionError", "DumpError" }

\* How the persist step of one call goes: the fault, where a failed dump
\* stops, and whether the clock advances before the write.
Persists ==
  { [fault |-> "none", trunc |-> NoCut, tick |-> k] : k \in { 0, 1 } }
  \cup { [fault |-> f, trunc |-> NoCut, tick |-> 0] : f \in { "FileNotFoundError", "PermissionError" } }
  \cup { [fault |-> "DumpError", trunc |-> c, tick |-> k] : c \in Cuts, k \in { 0, 1 } }


VARIABLES presets, heap, last_modified_time, file, mtime, held, last, listed

vars == << presets, heap, last_modified_time, file, mtime, held, last, listed >>

\* ------------------------------------------------------------ helpers
Range(s) == { s[i] : i \in DOMAIN s }

Max(S) == CHOOSE x \in S : \A y \in S : y <= x

Values(ps, hp) == [i \in DOMAIN ps |-> hp[ps[i]]]

IdsOf(vals) == { vals[i].id : i \in DOMAIN vals }

\* Mutation: the last element is removed, whatever the position.
RemoveAt_Last(s, i) == SubSeq(s, 1, Len(s) - 1)

RemoveAt(s, i) == SubSeq(s, 1, i - 1) \o SubSeq(s, i + 1, Len(s))

InsertAt(s, i, x) == SubSeq(s, 1, i - 1) \o << x >> \o SubSeq(s, i, Len(s))

\* The k-th smallest reference that is not in used.
NthFree(used, k) ==
  CHOOSE r \in Refs \ used : Cardinality({ x \in Refs \ used : x < r }) = k - 1

\* ------------------------------------------------------------ conversions
\* parse_obj_as(list[Preset], obj) on one mapping: id and name are required,
\* tempoDynamicsScale defaults to 1.0, unknown keys are ignored.
ValidRec(rec) == { "id", "name" } \subseteq DOMAIN rec

ParsePreset(rec) ==
  Preset(rec.id, rec.name,
         IF "tempoDynamicsScale" \in DOMAIN rec THEN rec.tempoDynamicsScale ELSE DefaultTempo)

ParseDoc(doc) == [i \in DOMAIN doc.recs |-> ParsePreset(doc.recs[i])]

ValidDoc(doc) == doc.kind = "seq" /\ \A i \in DOMAIN doc.recs : ValidRec(doc.recs[i])

\* preset.model_dump(): a mapping with every field of the model.
ModelDump(v) == [id |-> v.id, name |-> v.name, tempoDynamicsScale |-> v.tempoDynamicsScale]

DumpDoc(vals) == SeqDoc([i \in DOMAIN vals |-> ModelDump(vals[i])])

\* ------------------------------------------------------------ _refresh_cache
\* keep: the references that stay alive whatever the cache does (the
\* caller's).  A reload builds new objects for every record of the file.
HasDuplicateIds(vals) == Len(vals) # Cardinality(IdsOf(vals))

\* What preset_path.stat() gives: the file's st_mtime, or NoStat when it
\* raises OSError.
NoStat == -1

Stat(doc, mt) == IF doc.kind = "missing" THEN NoStat ELSE mt

\* open(), yaml.safe_load and the checks on what was loaded.  Only the
\* OSError of stat() is caught: open() of a file that has gone raises
\* FileNotFoundError, and yaml.safe_load of text that is not YAML raises a
\* YAMLError.
ReadError(doc) ==
  IF doc.kind = "missing" THEN "FileNotFoundError"
  ELSE IF doc.kind = "badyaml" THEN "YAMLError"
  ELSE IF doc.kind = "null" THEN "PresetInternalError"
  ELSE IF ~ValidDoc(doc) THEN "PresetInternalError"
  ELSE IF HasDuplicateIds(ParseDoc(doc)) THEN "PresetInternalError"
  ELSE "none"

\* Mutation: an unchanged st_mtime is taken from memory, the file not looked at.
RefreshError_NoStat(doc, st, lmt) ==
  IF st = lmt \/ st = NoStat THEN "none" ELSE ReadError(doc)

\* st is what stat() gave and doc what open() then finds: another writer
\* may have come in between.
RefreshError(doc, st, lmt) ==
  IF st = NoStat THEN "PresetInternalError"
  ELSE IF st = lmt THEN "none"
  ELSE ReadError(doc)

\* Mutation: the file is read whether its st_mtime changed or not.
Reloads_Always(doc, st, lmt) == st # NoStat /\ ValidDoc(doc) /\ RefreshError(doc, st, lmt) = "none"

Reloads(doc, st, lmt) == st # NoStat /\ st # lmt /\ RefreshError(doc, st, lmt) = "none"

\* self.presets = _presets: new objects for every record of doc, in a new
\* list.
Rebind(hp, doc, keep) ==
  LET parsed == ParseDoc(doc)
      newps == [i \in DOMAIN parsed |-> NthFree(keep, i)]
  IN [presets |-> newps,
      heap |-> [r \in keep \cup Range(newps) |->
                  IF r \in keep THEN hp[r]
                  ELSE parsed[CHOOSE i \in DOMAIN newps : newps[i] = r]]]

\* Mutation: the st_mtime that was read is remembered before the checks.
refresh_cache_EarlyMark(ps, hp, lmt, doc, st, keep) ==
  IF Reloads(doc, st, lmt)
  THEN [err |-> "none", presets |-> Rebind(hp, doc, keep).presets,
        heap |-> Rebind(hp, doc, keep).heap, lmt |-> st]
  ELSE [err |-> RefreshError(doc, st, lmt), presets |-> ps, heap |-> hp,
        lmt |-> IF st = NoStat THEN lmt ELSE st]

refresh_cache(ps, hp, lmt, doc, st, keep) ==
  IF Reloads(doc, st, lmt)
  THEN [err |-> "none", presets |-> Rebind(hp, doc, keep).presets,
        heap |-> Rebind(hp, doc, keep).heap, lmt |-> st]
  ELSE [err |-> RefreshError(doc, st, lmt), presets |-> ps, heap |-> hp, lmt |-> lmt]

\* ------------------------------------------------------------ _write_on_file
\* The records are dumped one after the other, the id first: a record the
\* dump stopped in has its first keys only, and lacks required ones.
PartialDump(v) == [id |-> v.id]

\* A dump of n records can stop at this cut: after k of the records, k = 0
\* being the whole of an empty list, or inside one of them.
CutFits(cut, n) ==
  CASE cut.kind = "records" -> IF n = 0 THEN cut.k = 0 ELSE cut.k \in 1..n
    [] cut.kind = "inrecord" -> cut.k \in 1..n
    [] OTHER -> TRUE

\* What the file holds when the dump of vals stopped at cut.
TruncatedDoc(vals, cut) ==
  LET whole == DumpDoc(vals).recs
  IN CASE cut.kind = "empty" -> NullDoc
       [] cut.kind = "text" -> BadYamlDoc
       [] cut.kind = "records" -> SeqDoc(SubSeq(whole, 1, cut.k))
       [] OTHER -> SeqDoc(SubSeq(whole, 1, cut.k - 1) \o << PartialDump(vals[cut.k]) >>)


\* open(mode="w") fails before the file is touched (FileNotFoundError,
\* PermissionError) or truncates it; yaml.safe_dump then writes the whole
\* list, or fails and leaves what it wrote up to trunc.
write_on_file(vals, doc, fault, trunc) ==
  CASE fault = "none" -> DumpDoc(vals)
    [] fault = "DumpError" -> TruncatedDoc(vals, trunc)
    [] OTHER -> doc

TouchesFile(fault) == fault \in { "none", "DumpError" }

\* except Exception as err: FileNotFoundError becomes PresetInternalError,
\* anything else is raised again.
\* Mutation: every failure of the write is reported as PresetInternalError.
RaisedError_AllInternal(fault) == "PresetInternalError"

RaisedError(fault) ==
  IF fault = "FileNotFoundError" THEN "PresetInternalError" ELSE fault

\* ------------------------------------------------------------ add_preset
NeedsNewId(id, vals) == id < 0 \/ id \in IdsOf(vals)

\* Mutation: the new id is the number of presets.
NewPresetId_Count(vals) == Len(vals)

NewPresetId(vals) == Max(IdsOf(vals)) + 1

\* Mutation: the appended preset stays in the cache.
AddRollback_Missing(ps) == ps

AddRollback(ps) == SubSeq(ps, 1, Len(ps) - 1)

\* What a call leaves behind: the store, the file, how the call ended
\* (outcome "ok" with the returned value ret, or the name of the error
\* raised), pre = the ids of the cache after _refresh_cache, mid = the cache
\* just before the append / replacement / removal.
Result(ps, hp, lmt, doc, mt, outcome, ret, pre, mid) ==
  [presets |-> ps, heap |-> hp, lmt |-> lmt, file |-> doc, mtime |-> mt,
   outcome |-> outcome, ret |-> ret, pre |-> pre, mid |-> mid, fault |-> "none"]

\* The same for a call that reached _write_on_file, which went as fault says.
Persisted(ps, hp, lmt, doc, mt, outcome, ret, pre, mid, fault) ==
  [presets |-> ps, heap |-> hp, lmt |-> lmt, file |-> doc, mtime |-> mt,
   outcome |-> outcome, ret |-> ret, pre |-> pre, mid |-> mid, fault |-> fault]

add_preset(ps, hp, lmt, st, doc, mt, keep, p, fault, trunc, t) ==
  LET r == refresh_cache(ps, hp, lmt, doc, st, keep)
      vals == Values(r.presets, r.heap)
      fresh == NeedsNewId(r.heap[p].id, vals)
  IN IF r.err # "none"
     THEN Result(r.presets, r.heap, r.lmt, doc, mt, r.err, 0, IdsOf(vals), vals)
     ELSE IF fresh /\ r.presets = << >>
     THEN Result(r.presets, r.heap, r.lmt, doc, mt, "ValueError", 0, IdsOf(vals), vals)
     ELSE LET hp1 == IF fresh THEN [r.heap EXCEPT ![p].id = NewPresetId(vals)] ELSE r.heap
              mid == Values(r.presets, hp1)
              ps1 == Append(r.presets, p)
              doc1 == write_on_file(Values(ps1, hp1), doc, fault, trunc)
              mt1 == IF TouchesFile(fault) THEN t ELSE mt
          IN IF fault = "none"
             THEN Persisted(ps1, hp1, r.lmt, doc1, mt1, "ok", hp1[p].id, IdsOf(vals), mid, fault)
             ELSE Persisted(AddRollback(ps1), hp1, r.lmt, doc1, mt1, RaisedError(fault), 0,
                            IdsOf(vals), mid, fault)

\* ------------------------------------------------------------ update_preset
\* Mutation: an id that is not found falls back to the last preset.
FindIndex_Fallback(vals, id) ==
  IF id \in IdsOf(vals) THEN CHOOSE i \in DOMAIN vals :
                               vals[i].id = id /\ \A j \in 1..(i - 1) : vals[j].id # id
  ELSE Len(vals)

\* The first index whose preset has this id; 0 when the loop runs out.
FindIndex(vals, id) ==
  IF id \in IdsOf(vals) THEN CHOOSE i \in DOMAIN vals :
                               vals[i].id = id /\ \A j \in 1..(i - 1) : vals[j].id # id
  ELSE 0

\* Mutation: the replaced preset is not put back.
UpdateRollback_Missing(ps, i, prev) == ps

UpdateRollback(ps, i, prev) == [ps EXCEPT ![i] = prev]

update_preset(ps, hp, lmt, st, doc, mt, keep, p, fault, trunc, t) ==
  LET r == refresh_cache(ps, hp, lmt, doc, st, keep)
      vals == Values(r.presets, r.heap)
      i == FindIndex(vals, r.heap[p].id)
  IN IF r.err # "none"
     THEN Result(r.presets, r.heap, r.lmt, doc, mt, r.err, 0, IdsOf(vals), vals)
     ELSE IF i = 0
     THEN Result(r.presets, r.heap, r.lmt, doc, mt, "PresetInputError", 0, IdsOf(vals), vals)
     ELSE LET prev == r.presets[i]
              ps1 == [r.presets EXCEPT ![i] = p]
              doc1 == write_on_file(Values(ps1, r.heap), doc, fault, trunc)
              mt1 == IF TouchesFile(fault) THEN t ELSE mt
          IN IF fault = "none"
             THEN Persisted(ps1, r.heap, r.lmt, doc1, mt1, "ok", r.heap[p].id, IdsOf(vals), vals, fault)
             ELSE Persisted(UpdateRollback(ps1, i, prev), r.heap, r.lmt, doc1, mt1,
                            RaisedError(fault), 0, IdsOf(vals), vals, fault)

\* ------------------------------------------------------------ delete_preset
\* except FileNotFoundError: only that failure reinserts the removed preset.
DeleteRollback(ps, i, buf, fault) ==
  IF fault = "FileNotFoundError" THEN InsertAt(ps, i, buf) ELSE ps

delete_preset(ps, hp, lmt, st, doc, mt, keep, id, fault, trunc, t) ==
  LET r == refresh_cache(ps, hp, lmt, doc, st, keep)
      vals == Values(r.presets, r.heap)
      i == FindIndex(vals, id)
  IN IF r.err # "none"
     THEN Result(r.presets, r.heap, r.lmt, doc, mt, r.err, 0, IdsOf(vals), vals)
     ELSE IF i = 0
     THEN Result(r.presets, r.heap, r.lmt, doc, mt, "PresetInputError", 0, IdsOf(vals), vals)
     ELSE LET buf == r.presets[i]
              ps1 == RemoveAt(r.presets, i)
              doc1 == write_on_file(Values(ps1, r.heap), doc, fault, trunc)
              mt1 == IF TouchesFile(fault) THEN t ELSE mt
          IN IF fault = "none"
             THEN Persisted(ps1, r.heap, r.lmt, doc1, mt1, "ok", id, IdsOf(vals), vals, fault)
             ELSE Persisted(DeleteRollback(ps1, i, buf, fault), r.heap, r.lmt, doc1, mt1,
                            RaisedError(fault), 0, IdsOf(vals), vals, fault)

\* ------------------------------------------------------------ load_presets
\* Mutation: the cache is returned as it is, _refresh_cache not called.
load_presets_Stale(ps, hp, lmt, st, doc, mt, keep) ==
  Result(ps, hp, lmt, doc, mt, "ok", 0, {}, << >>)

load_presets(ps, hp, lmt, st, doc, mt, keep) ==
  LET r == refresh_cache(ps, hp, lmt, doc, st, keep)
  IN Result(r.presets, r.heap, r.lmt, doc, mt,
            IF r.err = "none" THEN "ok" ELSE r.err, 0, {}, << >>)

\* ------------------------------------------------------------ object identity
\* References are renamed after every step: the objects of the cache come
\* first, in order of first occurrence, then the caller's other objects.
FirstAt(ps, r) == CHOOSE i \in DOMAIN ps : ps[i] = r /\ \A j \in 1..(i - 1) : ps[j] # r

NewName(ps, hl, r) ==
  IF r \in Range(ps)
  THEN Cardinality({ ps[j] : j \in 1..FirstAt(ps, r) })
  ELSE Cardinality(Range(ps)) + Cardinality({ x \in hl \ Range(ps) : x <= r })

Live(ps, hl) == Range(ps) \cup hl

OldName(ps, hl, n) == CHOOSE r \in Live(ps, hl) : NewName(ps, hl, r) = n

WithinBounds(r, hl, b) ==
  /\ Len(r.presets) <= b.len
  /\ Cardinality(hl) <= MaxHeld
  /\ \A x \in Live(r.presets, hl) : r.heap[x].id <= b.id

\* The state after a call that ended as r, the caller holding hl; arg is the
\* id the caller passed (the record's, or delete_preset's), b the lists and
\* ids the specification goes up to.  An object that is not in the cache is
\* forgotten: it is shared with nothing, and passing it again is passing a
\* new object of the same value.
Shared(r, hl) == hl \cap Range(r.presets)

Commit(r, hl, op, arg, b) ==
  LET sh == Shared(r, hl)
  IN /\ WithinBounds(r, sh, b)
     /\ presets' = [i \in DOMAIN r.presets |-> NewName(r.presets, sh, r.presets[i])]
     /\ heap' = [n \in 1..Cardinality(Range(r.presets)) |-> r.heap[OldName(r.presets, sh, n)]]
     /\ held' = { NewName(r.presets, sh, x) : x \in sh }
     /\ last_modified_time' = r.lmt
     /\ file' = r.file
     /\ mtime' = r.mtime
     /\ last' = [op |-> op, arg |-> arg, fault |-> r.fault, outcome |-> r.outcome,
                 ret |-> r.ret, pre |-> r.pre, mid |-> r.mid]

\* self.presets = _presets: a reload binds the cache to a new list, and the
\* list the caller got before is the cache no more.  The watermark is
\* assigned in the same place, so it moves exactly when the list is rebound.
StillListed(r) == listed /\ r.lmt = last_modified_time

\* st_mtime after the file was written: the clock may not have advanced.
CanTick(mt, k) == mt + k \in Times

\* ------------------------------------------------------------ another writer inside a call
\* What another writer does inside a call is a matter of bytes.  The texts
\* compared here are dumps of Presets with ids of one digit: yaml.safe_dump
\* writes every record as the same lines, each ended by a newline, so that
\* two records differ in length by the sign of a negative id only, and an
\* empty list is one short line.
IsDump(doc) ==
  /\ doc.kind = "seq"
  /\ \A i \in DOMAIN doc.recs : DOMAIN doc.recs[i] = { "id", "name", "tempoDynamicsScale" }
  /\ \A i \in DOMAIN doc.recs : doc.recs[i].id \in (-1)..9

\* What another writer that dumps Presets leaves inside a call, after it has
\* removed the file or not.
DumpedDocs == { MissingDoc } \cup { d \in ExternalDocs : IsDump(d) }

\* The bytes the first n records of recs take more than n records of ids
\* that are not negative.
Signs(recs, n) == Cardinality({ i \in 1..n : recs[i].id < 0 })

\* The text of first followed by what the text of rest has beyond the length
\* of first; both are dumps, or nothing at all.  The tail of rest goes on at
\* the end of a record (with or without the newline that ends it) or the
\* result is not YAML.
Splice(first, rest) ==
  LET nf == Len(first.recs)
      nr == Len(rest.recs)
      d == Signs(rest.recs, nf) - Signs(first.recs, nf)
  IN IF first.kind = "null" THEN rest
     ELSE IF rest.kind = "null" \/ nr = 0 \/ nr < nf THEN first
     ELSE IF nf = 0 THEN BadYamlDoc
     ELSE IF nr = nf THEN IF d <= 1 THEN first ELSE BadYamlDoc
     ELSE IF d \in { 0, 1 } THEN SeqDoc(first.recs \o SubSeq(rest.recs, nf + 1, nr))
     ELSE BadYamlDoc

\* What yaml.safe_load reads when another writer left rest after the first
\* read of the stream had given the whole of first: the next read gives what
\* the file has beyond that length.  An empty first read ends the stream, and
\* a file that was removed is read on through the open handle.
Reread(first, rest) ==
  IF first.kind = "null" \/ rest.kind = "missing" THEN first ELSE Splice(first, rest)

\* The file after the handle of open(mode="w") wrote dump from offset 0 while
\* the file held land, which another writer had left in it since the
\* truncation: what lies beyond the written text stays.  A file that was
\* removed meanwhile stays removed: the handle writes into a file that has no
\* name any more.
Landing(dump, land) == IF land.kind = "missing" THEN land ELSE Splice(dump, land)

\* ------------------------------------------------------------ actions
Init ==
  /\ presets = << >>
  /\ heap = << >>
  /\ last_modified_time = 0
  /\ held = {}
  /\ listed = FALSE
  /\ file \in InitialDocs
  /\ mtime = 1
  /\ last = [op |-> "init", arg |-> 0, fault |-> "none", outcome |-> "ok",
             ret |-> 0, pre |-> {}, mid |-> << >>]

\* A call that stops before _write_on_file does the same whatever the file
\* system would have done: ProbeIO finds that out, and the persist step is
\* then drawn from Persists only where it runs.
ProbeIO == [fault |-> "PermissionError", trunc |-> NoCut, tick |-> 0]

NoIO == [fault |-> "none", trunc |-> NoCut, tick |-> 0]

\* A disk on which no write fails.
Reliable == { io \in Persists : io.fault = "none" }

\* The ways the write of n records can go on a file of st_mtime mt, disk
\* being the ways the disk can behave.
IOs(probe, disk, mt, n) ==
  IF probe.fault = "none" THEN { NoIO }
  ELSE { io \in disk : CanTick(mt, io.tick) /\ CutFits(io.trunc, n) }

\* The caller can keep sharing the argument only if the call stored it.
Keeps(r) == IF r.outcome = "ok" THEN BOOLEAN ELSE { FALSE }

\* The file as a call finds it: st is what stat() gives, doc what
\* yaml.safe_load reads, left and mt what the file holds when the call has
\* read it.  No other writer comes into the call.
Quiet == [st |-> Stat(file, mtime), doc |-> file, mt |-> mtime, left |-> file]

\* Another writer comes between the stat() and the open() of one
\* _refresh_cache: the call has the st_mtime of the file as it was and reads
\* the file as it is now.
Races ==
  { [st |-> mtime, doc |-> d, mt |-> t, left |-> d] :
      d \in RaceDocs, t \in Times \cap { mtime, mtime + 1 } }

\* Another writer comes between two reads of one yaml.safe_load.
Rereads ==
  { [st |-> mtime, doc |-> Reread(file, d), mt |-> t, left |-> d] :
      d \in DumpedDocs, t \in Times \cap { mtime, mtime + 1 } }

\* The call reads the file, and the other writer has changed it.
Raced(w) == file.kind # "missing" /\ mtime # last_modified_time /\ (w.left # file \/ w.mt # mtime)

\* What a call of add_preset, update_preset or delete_preset that ended as r
\* leaves in the file, found as w says: what its dump wrote if
\* open(mode="w") went well, what the file held when the call had read it
\* otherwise.
Left(r, w) ==
  [r EXCEPT !.file = IF r.outcome = "ok" \/ r.fault = "DumpError" THEN r.file ELSE w.left]

DoAdd(hp, keep, p, io, w) ==
  Left(add_preset(presets, hp, last_modified_time, w.st, w.doc, w.mt, keep, p,
                  io.fault, io.trunc, w.mt + io.tick), w)

DoUpdate(hp, keep, p, io, w) ==
  Left(update_preset(presets, hp, last_modified_time, w.st, w.doc, w.mt, keep, p,
                     io.fault, io.trunc, w.mt + io.tick), w)

DoDelete(id, io, w) ==
  Left(delete_preset(presets, heap, last_modified_time, w.st, w.doc, w.mt, held, id,
                     io.fault, io.trunc, w.mt + io.tick), w)

DoLoad(w) ==
  [load_presets(presets, heap, last_modified_time, w.st, w.doc, w.mt, held)
     EXCEPT !.file = w.left]

\* The caller builds a Preset and passes it; it may keep the object.
AddNewIn(w, disk, b) ==
  \E v \in CallerPresets :
    LET p == NthFree(Live(presets, held), 1)
        hp == heap @@ (p :> v)
    IN \E probe \in { DoAdd(hp, held \cup { p }, p, ProbeIO, w) } :
         \E io \in IOs(probe, disk, w.mt, Len(probe.mid) + 1) :
           \E r \in { DoAdd(hp, held \cup { p }, p, io, w) } :
             /\ \E keepit \in Keeps(r) :
                  Commit(r, IF keepit THEN held \cup { p } ELSE held, "add", v.id, b)
             /\ listed' = StillListed(r)

AddNew == AddNewIn(Quiet, Persists, Base)

\* The caller passes an object it holds.
AddHeldIn(disk, b) ==
  \E p \in held :
    \E probe \in { DoAdd(heap, held, p, ProbeIO, Quiet) } :
      \E io \in IOs(probe, disk, mtime, Len(probe.mid) + 1) :
        \E r \in { DoAdd(heap, held, p, io, Quiet) } :
          /\ Commit(r, held, "add", heap[p].id, b)
          /\ listed' = StillListed(r)

AddHeld == AddHeldIn(Persists, Base)

UpdateNewIn(w, disk, b) ==
  \E v \in CallerPresets :
    LET p == NthFree(Live(presets, held), 1)
        hp == heap @@ (p :> v)
    IN \E probe \in { DoUpdate(hp, held \cup { p }, p, ProbeIO, w) } :
         \E io \in IOs(probe, disk, w.mt, Len(probe.mid)) :
           \E r \in { DoUpdate(hp, held \cup { p }, p, io, w) } :
             /\ \E keepit \in Keeps(r) :
                  Commit(r, IF keepit THEN held \cup { p } ELSE held, "update", v.id, b)
             /\ listed' = StillListed(r)

UpdateNew == UpdateNewIn(Quiet, Persists, Base)

UpdateHeld ==
  \E p \in held :
    \E probe \in { DoUpdate(heap, held, p, ProbeIO, Quiet) } :
      \E io \in IOs(probe, Persists, mtime, Len(probe.mid)) :
        \E r \in { DoUpdate(heap, held, p, io, Quiet) } :
          /\ Commit(r, held, "update", heap[p].id, Base)
          /\ listed' = StillListed(r)

DeleteIn(w, disk, b) ==
  \E id \in DeleteIds :
    \E probe \in { DoDelete(id, ProbeIO, w) } :
      \E io \in IOs(probe, disk, w.mt, Len(probe.mid) - 1) :
        \E r \in { DoDelete(id, io, w) } :
          /\ Commit(r, held, "delete", id, b)
          /\ listed' = StillListed(r)

Delete == DeleteIn(Quiet, Persists, Base)

\* load_presets; the caller may keep one of the returned objects, and keeps
\* the returned list or not as keeps says.
LoadIn(w, keeps, b) ==
  \E take \in 0..b.len, keeplist \in keeps :
    \E r \in { DoLoad(w) } :
       /\ take <= Len(r.presets)
       /\ take > 0 => r.outcome = "ok"
       /\ Commit(r, IF take = 0 THEN held ELSE held \cup { r.presets[take] },
                 "load", 0, b)
       /\ keeplist => r.outcome = "ok"
       /\ listed' = (keeplist \/ StillListed(r))

\* The caller reads the list and lets it go.
Load == LoadIn(Quiet, { FALSE }, Base)

\* A call after which the caller shares neither an object nor the list with
\* the cache.
Unshared == held' = {} /\ listed' = FALSE

\* The calls of a caller that shares nothing, on a reliable disk.
FileAdd == AddNewIn(Quiet, Reliable, Base) /\ Unshared

FileUpdate == UpdateNewIn(Quiet, Reliable, Base) /\ Unshared

FileDelete == DeleteIn(Quiet, Reliable, Base) /\ Unshared

FileLoad == LoadIn(Quiet, { FALSE }, Base) /\ Unshared

\* The same calls with another writer coming in between their stat() and
\* their open().
RacedAdd == \E w \in Races : Raced(w) /\ AddNewIn(w, Reliable, Base) /\ Unshared

RacedUpdate == \E w \in Races : Raced(w) /\ UpdateNewIn(w, Reliable, Base) /\ Unshared

RacedDelete == \E w \in Races : Raced(w) /\ DeleteIn(w, Reliable, Base) /\ Unshared

RacedLoad == \E w \in Races : Raced(w) /\ LoadIn(w, { FALSE }, Base) /\ Unshared

\* The same calls, reading a file that is a dump or empty, with another
\* writer coming in between two reads of their yaml.safe_load.
Dumped == file.kind = "null" \/ IsDump(file)

RereadAdd == \E w \in Rereads : Dumped /\ Raced(w) /\ AddNewIn(w, Reliable, Base) /\ Unshared

RereadUpdate == \E w \in Rereads : Dumped /\ Raced(w) /\ UpdateNewIn(w, Reliable, Base) /\ Unshared

RereadDelete == \E w \in Rereads : Dumped /\ Raced(w) /\ DeleteIn(w, Reliable, Base) /\ Unshared

RereadLoad == \E w \in Rereads : Dumped /\ Raced(w) /\ LoadIn(w, { FALSE }, Base) /\ Unshared

\* The ways a write that does not fail can go on a file of st_mtime mt.
Whole(mt) == { io \in Reliable : CanTick(mt, io.tick) }

\* The same calls on a file they find as it is, with another writer coming in
\* between their open(mode="w") and their yaml.safe_dump, which writes the
\* whole list: the call returns, and what the other writer left shows beyond
\* the end of the dump, or the file is gone.
LandedAdd ==
  \E d \in DumpedDocs, v \in CallerPresets :
    LET p == NthFree(Live(presets, held), 1)
        hp == heap @@ (p :> v)
    IN \E io \in Whole(mtime) :
         \E r \in { DoAdd(hp, held \cup { p }, p, io, Quiet) } :
           /\ r.outcome = "ok"
           /\ Landing(r.file, d) # r.file
           /\ Commit([r EXCEPT !.file = Landing(r.file, d)], held, "add", v.id, Base)
           /\ listed' = StillListed(r)
           /\ Unshared

LandedUpdate ==
  \E d \in DumpedDocs, v \in CallerPresets :
    LET p == NthFree(Live(presets, held), 1)
        hp == heap @@ (p :> v)
    IN \E io \in Whole(mtime) :
         \E r \in { DoUpdate(hp, held \cup { p }, p, io, Quiet) } :
           /\ r.outcome = "ok"
           /\ Landing(r.file, d) # r.file
           /\ Commit([r EXCEPT !.file = Landing(r.file, d)], held, "update", v.id, Base)
           /\ listed' = StillListed(r)
           /\ Unshared

LandedDelete ==
  \E d \in DumpedDocs, id \in DeleteIds :
    \E io \in Whole(mtime) :
      \E r \in { DoDelete(id, io, Quiet) } :
        /\ r.outcome = "ok"
        /\ Landing(r.file, d) # r.file
        /\ Commit([r EXCEPT !.file = Landing(r.file, d)], held, "delete", id, Base)
        /\ listed' = StillListed(r)
        /\ Unshared

\* The calls of a caller that keeps the list load_presets returned and none
\* of the objects, on a reliable disk.
Unheld == held' = {}

ListLoad == LoadIn(Quiet, { TRUE }, Base) /\ Unheld

ListAdd == AddNewIn(Quiet, Reliable, Base) /\ Unheld

ListUpdate == UpdateNewIn(Quiet, Reliable, Base) /\ Unheld

ListDelete == DeleteIn(Quiet, Reliable, Base) /\ Unheld

\* The caller forgets an object.
DropIn(b) ==
  \E p \in held :
    /\ Commit(Persisted(presets, heap, last_modified_time, file, mtime,
                        last.outcome, last.ret, last.pre, last.mid, last.fault),
              held \ { p }, last.op, last.arg, b)
    /\ UNCHANGED listed

Drop == DropIn(Base)

\* The calls of a caller on a reliable disk, with longer lists and higher
\* ids.
LongAddNew == AddNewIn(Quiet, Reliable, Wide)

LongAddHeld == AddHeldIn(Reliable, Wide)

LongDelete == DeleteIn(Quiet, Reliable, Wide)

LongLoad == LoadIn(Quiet, { FALSE }, Wide)

LongDrop == DropIn(Wide)

\* Somebody else rewrites, empties or removes the file.
ExternalWrite ==
  \E doc \in ExternalDocs, t \in Times :
    /\ t \in { 0, mtime, mtime + 1 }
    /\ file' = doc
    /\ mtime' = t
    /\ last' = [op |-> "external", arg |-> 0, fault |-> "none", outcome |-> "ok",
                ret |-> 0, pre |-> {}, mid |-> << >>]
    /\ UNCHANGED << presets, heap, last_modified_time, held, listed >>

Next == AddNew \/ AddHeld \/ UpdateNew \/ UpdateHeld \/ Delete \/ Load \/ Drop

\* The store and its callers, nobody else writing the file.
Spec == Init /\ [][Next]_vars

NextLong == LongAddNew \/ LongAddHeld \/ LongDelete \/ LongLoad \/ LongDrop

\* The store and a caller that adds and deletes on a reliable disk, the
\* lists and the ids going further than in Spec.
SpecLong == Init /\ [][NextLong]_vars

NextListed == ListLoad \/ ListAdd \/ ListUpdate \/ ListDelete

\* The store and a caller that goes on using the lists it was returned.
SpecListed == Init /\ [][NextListed]_vars

NextFile == ExternalWrite \/ FileAdd \/ FileUpdate \/ FileDelete \/ FileLoad

\* The store on a reliable disk, over a file that other writers replace,
\* damage or remove between the calls.
SpecFile == Init /\ [][NextFile]_vars

NextRaces ==
  \/ RacedAdd \/ RacedUpdate \/ RacedDelete \/ RacedLoad
  \/ RereadAdd \/ RereadUpdate \/ RereadDelete \/ RereadLoad
  \/ LandedAdd \/ LandedUpdate \/ LandedDelete

\* The same, the other writers coming into the calls too.
SpecRaces == Init /\ [][NextFile \/ NextRaces]_vars

TypeOK ==
  /\ Len(presets) <= Wide.len
  /\ Range(presets) \subseteq DOMAIN heap
  /\ held \subseteq DOMAIN heap
  /\ last_modified_time \in Times
  /\ mtime \in Times
  /\ listed \in BOOLEAN

\* ------------------------------------------------------------ properties
Mutators == { "add", "update", "delete" }

Cache == Values(presets, heap)

\* The last call reached _write_on_file and the write failed.
PersistFailed(op) == last.op = op /\ last.fault # "none"

\* The last call got through _refresh_cache.
Reconciled == last.outcome \in { "ok", "PresetInputError", "ValueError" } \/ last.fault # "none"

\* C1: no two presets of the cache share an id, whatever add_preset,
\* update_preset and delete_preset calls were made.
C1_UniqueIds ==
  \A i, j \in DOMAIN presets : i # j => heap[presets[i]].id # heap[presets[j]].id

\* C2: when the persist step of add_preset fails, the cache is again what it
\* was just before the append and the caller gets an error.
C2_AddRollsBack ==
  PersistFailed("add") => Cache = last.mid /\ last.outcome # "ok"

C2_Witness ==
  /\ PersistFailed("add")
  /\ last.fault = "DumpError"
  /\ Len(last.mid) > 0
  /\ Cache = last.mid

\* C3: when the persist step of update_preset fails, the previous preset is
\* back at its position, the cache is what it was before the replacement, and
\* the caller gets an error.
C3_UpdateRollsBack ==
  PersistFailed("update") => Cache = last.mid /\ last.outcome # "ok"

C3_Witness ==
  /\ PersistFailed("update")
  /\ last.fault = "PermissionError"
  /\ Len(last.mid) = 2
  /\ last.mid[2].id = last.arg
  /\ Cache = last.mid

\* C4: when the persist step of delete_preset fails, for any kind of failure,
\* the removed preset is back at its position and the caller gets an error.
C4_DeleteRollsBack ==
  PersistFailed("delete") => Cache = last.mid /\ last.outcome # "ok"

\* C5: a call whose persist step fails leaves the content of the file as it
\* was before the call.
C5_FailedPersistKeepsFile ==
  [][ (last'.op \in Mutators /\ last'.fault # "none") => file' = file ]_vars

\* C6: after every add_preset, update_preset and delete_preset call, ended
\* well or not, the file holds the records of the cache, in the same order.
C6_FileIsCache ==
  (last.op \in Mutators /\ Reconciled) => ValidDoc(file) /\ ParseDoc(file) = Cache

\* C7: after a successful add_preset, update_preset or delete_preset, a new
\* PresetManager over the same file loads a collection equal to the cache.
FreshLoad == load_presets(<< >>, << >>, 0, Stat(file, mtime), file, mtime, {})

C7_RoundTrip ==
  (last.op \in Mutators /\ last.outcome = "ok") =>
    /\ FreshLoad.outcome = "ok"
    /\ Values(FreshLoad.presets, FreshLoad.heap) = Cache

\* C8: on a cache that is not empty a successful add_preset stores and
\* returns max(existing ids) + 1 when the given id is negative or taken, and
\* the given id otherwise.
C8_Expected ==
  IF last.arg < 0 \/ last.arg \in last.pre THEN Max(last.pre) + 1 ELSE last.arg

C8_AssignedId ==
  (last.op = "add" /\ last.outcome = "ok" /\ last.pre # {}) =>
    /\ last.ret = C8_Expected
    /\ Cache[Len(Cache)].id = C8_Expected

\* The id was taken, and the highest of three ids stood in the middle of the
\* list: neither the first, the last nor the lowest id plus one is returned.
C8_Witness ==
  /\ last.op = "add" /\ last.outcome = "ok"
  /\ last.arg \in last.pre
  /\ Len(last.mid) = 3 /\ Cardinality(last.pre) = 3
  /\ last.mid[2].id = Max(last.pre)
  /\ last.ret = Max(last.pre) + 1
  /\ last.ret \notin { last.arg, last.mid[1].id + 1, last.mid[3].id + 1 }
  /\ Cache[4].id = last.ret

\* C9: add_preset with id -1 on an empty cache succeeds, returns 0 and leaves
\* exactly one preset, of id 0.
C9_AddOnEmpty ==
  (last.op = "add" /\ Reconciled /\ last.fault = "none" /\ last.pre = {} /\ last.arg = -1) =>
    /\ last.outcome = "ok"
    /\ last.ret = 0
    /\ Len(Cache) = 1
    /\ Cache[1].id = 0

\* C10: update_preset and delete_preset with an id that no preset of the
\* cache has raise PresetInputError, write nothing, and leave the file and the
\* cache as _refresh_cache left it.
C10_NotFound ==
  [][ (last'.op \in { "update", "delete" } /\ Reconciled' /\ last'.arg \notin last'.pre) =>
        /\ last'.outcome = "PresetInputError"
        /\ last'.fault = "none"
        /\ Cache' = last'.mid
        /\ file' = file
        /\ mtime' = mtime ]_vars

C10_Witness ==
  /\ last.op = "delete"
  /\ last.outcome = "PresetInputError"
  /\ last.arg \notin last.pre
  /\ Len(Cache) = 2

\* The content of the list that load_presets returned, while the caller holds
\* it and it is still the list of the cache.
ReturnedList == Values(presets, heap)

\* C11: load_presets returns a snapshot: a later add_preset, update_preset or
\* delete_preset does not change the sequence a caller was given earlier.
C11_ReturnedIsSnapshot ==
  [][ (listed /\ listed' /\ last'.op \in Mutators) => ReturnedList' = ReturnedList ]_vars

PublicOps == Mutators \cup { "load" }

\* This step is a call of one of ops (a step that changes held alone is the
\* caller forgetting an object).
Called(ops) ==
  /\ last'.op \in ops
  /\ << presets, heap, last_modified_time, file, mtime, last, listed >>'
       # << presets, heap, last_modified_time, file, mtime, last, listed >>

\* The file is there and its content is no list of presets with distinct ids.
CorruptDoc(doc) ==
  \/ doc.kind \in { "null", "badyaml" }
  \/ doc.kind = "seq" /\ (~ValidDoc(doc) \/ HasDuplicateIds(ParseDoc(doc)))

\* The file is there and holds a list of presets with distinct ids.
GoodDoc(doc) == doc.kind = "seq" /\ ~CorruptDoc(doc)

\* What the call of this step got from stat() and found at open(): the file
\* as it was before the step.
Found == [st |-> Stat(file, mtime), doc |-> file]

\* The call of this step had a st_mtime other than the remembered one.
FoundChanged == Found.st # NoStat /\ Found.st # last_modified_time

\* C12: while the file is empty, is no list of preset records or holds a
\* duplicated id, and its st_mtime differs from the remembered one, every
\* public call fails with PresetInternalError, and it leaves the file and the
\* remembered time as they are, so that the next call fails too.
C12_CorruptFails ==
  [][ (CorruptDoc(Found.doc) /\ FoundChanged /\ Called(PublicOps)) =>
        /\ last'.outcome = "PresetInternalError"
        /\ file' = Found.doc
        /\ mtime' = mtime
        /\ last_modified_time' = last_modified_time ]_vars

\* C13: when the file is missing (its st_mtime cannot be read), every public
\* call fails with PresetInternalError before it mutates or writes anything:
\* the cache, the remembered time and the file are as before the call.
C13_MissingFails ==
  [][ (file.kind = "missing" /\ Called(PublicOps)) =>
        /\ last'.outcome = "PresetInternalError"
        /\ last'.fault = "none"
        /\ Cache' = Cache
        /\ last_modified_time' = last_modified_time
        /\ file' = file ]_vars

C13_Witness ==
  /\ file.kind = "missing"
  /\ last.op = "add"
  /\ last.outcome = "PresetInternalError"
  /\ Len(Cache) = 2
  /\ last_modified_time = mtime

\* after is before without one record of this id, the rest in place.
C14_Removed(before, after, id) ==
  \E i \in DOMAIN before :
    /\ before[i].id = id
    /\ Len(after) = Len(before) - 1
    /\ \A j \in 1..(i - 1) : after[j] = before[j]
    /\ \A j \in (i + 1)..Len(before) : after[j - 1] = before[j]

C15_NonNegativeIds ==
  \A i \in DOMAIN presets : heap[presets[i]].id >= 0

\* The range tempoDynamicsScale is documented with, 0.0 to 2.0, in tenths.
C17_InRange(v) == v.tempoDynamicsScale \in 0..20

\* C17: a record with a numeric field outside its range is rejected when it
\* is built, from the caller's input or from the file, so no preset of the
\* cache has a field outside its range (the range of the id is C15).
C17_RangesEnforced ==
  \A i \in DOMAIN presets : C17_InRange(heap[presets[i]])

\* The last call was stopped by _refresh_cache.
RefreshFailed ==
  /\ last.outcome \in { "PresetInternalError", "YAMLError", "FileNotFoundError" }
  /\ last.fault = "none"


\* C18: a call whose _refresh_cache fails leaves the cache and the remembered
\* time as they were; the remembered time changes only in a call that read
\* a file passing every check, and then it is the st_mtime the call got and
\* the cache the call worked on is the list the call read.
C18_AtomicSwap ==
  [][ Called(PublicOps) =>
        /\ RefreshFailed' =>
              Cache' = Cache /\ last_modified_time' = last_modified_time
        /\ last_modified_time' # last_modified_time =>
              /\ GoodDoc(Found.doc)
              /\ last_modified_time' = Found.st
              /\ ~RefreshFailed'
              /\ IF last'.op = "load" THEN Cache' = ParseDoc(Found.doc)
                  ELSE last'.mid = ParseDoc(Found.doc) ]_vars

C18_Witness ==
  /\ RefreshFailed
  /\ last.op = "update"
  /\ file.kind = "seq" /\ CorruptDoc(file)
  /\ mtime # last_modified_time
  /\ Len(Cache) = 2

\* C19: every public call runs _refresh_cache first: when the file the call
\* reads holds a valid list and the st_mtime the call got differs from the
\* remembered one, load_presets returns exactly the file's records, and
\* add_preset, update_preset and delete_preset work on the file's records,
\* not on what the cache held, and write back the result.
C19_AdoptsFile ==
  [][ (GoodDoc(Found.doc) /\ FoundChanged /\ Called(PublicOps)) =>
        /\ last_modified_time' = Found.st
        /\ last'.op = "load" => last'.outcome = "ok" /\ Cache' = ParseDoc(Found.doc)
        /\ last'.op \in Mutators =>
              /\ last'.pre = IdsOf(ParseDoc(Found.doc))
              /\ last'.mid = ParseDoc(Found.doc)
              /\ last'.outcome = "ok" =>
                    /\ ParseDoc(file') = Cache'
                    /\ last'.op = "add" =>
                          /\ SubSeq(Cache', 1, Len(Cache') - 1) = ParseDoc(Found.doc)
                          /\ Cache'[Len(Cache')].id = last'.ret
                    /\ last'.op = "update" =>
                          /\ Len(Cache') = Len(ParseDoc(Found.doc))
                          /\ \A j \in DOMAIN Cache' :
                                IF j = FindIndex(ParseDoc(Found.doc), last'.arg)
                                THEN Cache'[j].id = last'.arg
                                ELSE Cache'[j] = ParseDoc(Found.doc)[j]
                    /\ last'.op = "delete" =>
                          C14_Removed(ParseDoc(Found.doc), Cache', last'.arg) ]_vars

C19_Witness ==
  /\ last.op = "add" /\ last.outcome = "ok"
  /\ last.mid = << Preset(0, "A", 30) >>
  /\ Len(Cache) = 2
  /\ Cache[1] = Preset(0, "A", 30)
  /\ ParseDoc(file) = Cache

\* C20: when the file's st_mtime equals the remembered one, _refresh_cache
\* returns without reading the file, whatever its content: the call does not
\* fail in _refresh_cache and works on the cache as it was, the remembered
\* time unchanged.  This includes a new store (remembered time 0.0, empty
\* cache) over a file whose st_mtime is 0.
C20_FreshnessSkip ==
  [][ (file.kind # "missing" /\ mtime = last_modified_time /\ Called(PublicOps)) =>
        /\ ~RefreshFailed'
        /\ last_modified_time' = last_modified_time
        /\ last'.op = "load" => last'.outcome = "ok" /\ Cache' = Cache /\ file' = file
        /\ last'.op \in Mutators => last'.pre = IdsOf(Cache) /\ last'.mid = Cache ]_vars

C20_Witness ==
  /\ last.op = "load" /\ last.outcome = "ok"
  /\ last_modified_time = 0 /\ mtime = 0
  /\ Cache = << >>
  /\ file.kind = "seq" /\ Len(file.recs) > 0

\* The cache the call of this step found after its _refresh_cache: the
\* file's list if the remembered time moved, the cache as it was otherwise.
Refreshed == IF last_modified_time' # last_modified_time THEN ParseDoc(Found.doc) ELSE Cache

\* C16: with every call run from _refresh_cache to its return before the next
\* starts, as every step of Spec is, a call whose write fails leaves the
\* cache as the calls before it made it: the cache its _refresh_cache found.
C16_SerialCallsRollBack ==
  [][ (Called(Mutators) /\ last'.fault # "none") => Cache' = Refreshed ]_vars

\* C21: a successful add_preset puts the new preset at the end and leaves
\* every earlier preset unchanged at its position; a successful update_preset
\* replaces the preset at the position of the first entry with that id,
\* returns the id, and leaves the length, the set of ids and every other
\* entry unchanged; the file holds the presets in the order of the cache.
C21_OrderKept ==
  [][ (Called(Mutators) /\ last'.outcome = "ok") =>
        /\ ParseDoc(file') = Cache'
        /\ last'.op = "add" =>
              /\ Len(Cache') = Len(Refreshed) + 1
              /\ SubSeq(Cache', 1, Len(Refreshed)) = Refreshed
              /\ Cache'[Len(Cache')].id = last'.ret
        /\ last'.op = "update" =>
              /\ last'.ret = last'.arg
              /\ Len(Cache') = Len(Refreshed)
              /\ IdsOf(Cache') = IdsOf(Refreshed)
              /\ \A j \in DOMAIN Refreshed :
                    IF j = FindIndex(Refreshed, last'.arg)
                    THEN Cache'[j].id = last'.arg
                    ELSE Cache'[j] = Refreshed[j] ]_vars

\* C22: when _write_on_file fails in add_preset, update_preset or
\* delete_preset, the caller gets PresetInternalError if the failure is
\* FileNotFoundError and the original error otherwise; the call never
\* returns normally and never raises PresetInputError.
C22_PersistErrorMapping ==
  (last.op \in Mutators /\ last.fault # "none") =>
    /\ last.outcome = IF last.fault = "FileNotFoundError" THEN "PresetInternalError"
                      ELSE last.fault
    /\ last.outcome \notin { "ok", "PresetInputError" }

C22_Witness ==
  /\ last.op = "delete"
  /\ last.fault = "FileNotFoundError"
  /\ last.outcome = "PresetInternalError"
  /\ Len(Cache) = 2

\* The last call wrote the file and the file's st_mtime moved with it, away
\* from the remembered one.
WroteAhead == last.op \in Mutators /\ last.outcome = "ok" /\ mtime # last_modified_time

\* C23: last_modified_time is assigned only by a reload, with the st_mtime
\* the reload read: a successful add_preset, update_preset or delete_preset
\* whose write moved the file's st_mtime leaves the remembered time behind it,
\* and the next public call reloads the file and works on a cache equal to
\* the one that was written.
C23_WatermarkByReloadOnly ==
  [][ Called(PublicOps) =>
        /\ last_modified_time' \in { last_modified_time, mtime }
        /\ (last'.op \in Mutators /\ last'.outcome = "ok" /\ mtime' # mtime) =>
              last_modified_time' # mtime'
        /\ WroteAhead =>
              /\ ~RefreshFailed'
              /\ last_modified_time' = mtime
              /\ IF last'.op = "load" THEN Cache' = Cache ELSE last'.mid = Cache ]_vars

====
